---------------------------- MODULE Spec2Model ----------------------------
(***************************************************************************)
(* Registration and payment verification of the zignasa backend.           *)
(*                                                                         *)
(*   POST /registration              src/services/database.js  39-227     *)
(*   POST /razorpay/verify-payment   src/routes/razorpayRoute.js 49-301   *)
(*   legacy verify-payment           src/unnamed/part_000      95-205     *)
(*                                                                         *)
(* Every request is one run of an async handler.  A handler runs without   *)
(* interruption up to its next `await`; each awaited call on the store or  *)
(* on the payment service takes effect atomically, and the code that       *)
(* follows it up to the next await (or the response) belongs to the same   *)
(* step.  Handlers of different requests interleave at the awaits.         *)
(***************************************************************************)
EXTENDS Integers, Sequences, FiniteSets, TLC

\* ------------------------------------------------------------------ bounds
\* Number of POST /registration requests received.
NReg == 2
\* Number of POST /razorpay/verify-payment requests received.
NVerify == 2
\* Length of a truncated signature a client may send instead of the digest.
PrefixLen == 20

\* ------------------------------------------------------- program constants
\* Hex characters of a SHA-256 digest (.digest('hex')).
HexLen == 64
\* parseInt(process.env.REGISTRATION_CHARGE_PER_MEMBER || 100)
ChargePerMember == 100
\* members.length > 5 is rejected.
MaxMembers == 5

RegSlots == 1..NReg
VerSlots == 1..NVerify

VARIABLES
    teams,            \* table public.teams: sequence of rows, id = position
    registrations,    \* table public.registrations: sequence of rows
    orders,           \* orders created at the payment service, id = position
    razorpayInstance, \* TRUE when the payment client was configured at start
    nodeEnv,          \* process.env.NODE_ENV, fixed when the process starts
    reg,              \* registration handlers: slot -> locals
    ver,              \* verify-payment handlers: slot -> locals
    co                \* the create-order handler: locals

vars == <<teams, registrations, orders, razorpayInstance, nodeEnv, reg, ver, co>>

\* ------------------------------------------------------------------ values
\* A missing / empty string (falsy in JavaScript).
Empty == << >>
\* RAZORPAY_SECRET, and a key that is not the secret.
Secret == "RAZORPAY_SECRET"
OtherKey == "other_key"

\* The id of the k-th order of the payment service, as a string.
OrderIdOf(k) == <<"order", k>>
\* Payment ids issued by the gateway.
PaymentIds == { <<"pay", 1>>, <<"pay", 2>> }

\* !s of a string: the empty (or missing) string is falsy.
Present(s) == s # Empty

\* crypto.createHmac('sha256', key).update(msg).digest('hex'): the digest is a
\* function of key and message, HexLen characters long; distinct (key, msg)
\* give distinct digests.
Hmac(key, msg) == [key |-> key, msg |-> msg, len |-> HexLen]
\* The first n characters of a digest.
Prefix(sig, n) == [sig EXCEPT !.len = IF n < sig.len THEN n ELSE sig.len]

\* razorpayOrderId + '|' + razorpayPaymentId
SignedBody(orderId, paymentId) == orderId \o <<"|">> \o paymentId

\* expectedSignature, lines 113-116
ExpectedSignature(orderId, paymentId) == Hmac(Secret, SignedBody(orderId, paymentId))

\* ----------------------------------------------------- requests and members
Roles == {"Team Lead", "Member"}
validDomains == {"Web Dev", "Agentic AI", "UI/UX"}
requiredFields == <<"name", "email", "phone", "college", "role">>

\* One entry of members[]: a missing field is the empty string.
Mem(email, role, roll) ==
    [name |-> "n", email |-> email, phone |-> "ph", college |-> "c",
     role |-> role, rollNumber |-> roll, roll_number |-> ""]

\* String.prototype.trim on a string given as a sequence of characters.
RECURSIVE TrimLeft(_)
TrimLeft(s) ==
    IF s # << >> /\ Head(s) = " " THEN TrimLeft(Tail(s)) ELSE s
RECURSIVE TrimRight(_)
TrimRight(s) ==
    IF s # << >> /\ s[Len(s)] = " " THEN TrimRight(SubSeq(s, 1, Len(s) - 1)) ELSE s
Trim(s) == TrimRight(TrimLeft(s))

\* members.filter(m => m.role === 'Team Lead').length
RECURSIVE CountLeads(_)
CountLeads(members) ==
    IF members = << >> THEN 0
    ELSE (IF Head(members).role = "Team Lead" THEN 1 ELSE 0) + CountLeads(Tail(members))

\* requiredFields.filter(field => !member[field])
MissingFields(member) ==
    { i \in 1..Len(requiredFields) : member[requiredFields[i]] = "" }

\* The loop over members, lines 87-119: the first failing check of the first
\* failing member decides; emails is the Set of the emails seen so far.
RECURSIVE MemberLoopNoAdd(_, _, _)
MemberLoopNoAdd(members, i, emails) ==
    IF i > Len(members) THEN "ok"
    ELSE IF members[i].email \in emails THEN "400 duplicate email"
    ELSE IF MissingFields(members[i]) # {} THEN "400 missing member fields"
    ELSE IF members[i].role \notin Roles THEN "400 invalid role"
    ELSE MemberLoopNoAdd(members, i + 1, emails)
RECURSIVE MemberLoop(_, _, _)
MemberLoop(members, i, emails) ==
    IF i > Len(members) THEN "ok"
    ELSE IF members[i].email \in emails THEN "400 duplicate email"
    ELSE IF MissingFields(members[i]) # {} THEN "400 missing member fields"
    ELSE IF members[i].role \notin Roles THEN "400 invalid role"
    ELSE MemberLoop(members, i + 1, emails \cup {members[i].email})

\* The checks of POST /registration that precede its first await, lines 44-119.
ValidateRegistration(req) ==
    IF req.teamName = << >> \/ Len(Trim(req.teamName)) = 0 THEN "400 teamName"
    ELSE IF req.domain = "" \/ req.domain \notin validDomains THEN "400 domain"
    ELSE IF Len(req.members) < 1 \/ Len(req.members) > MaxMembers THEN "400 member count"
    ELSE IF CountLeads(req.members) = 0 THEN "400 no team lead"
    ELSE IF CountLeads(req.members) > 1 THEN "400 several team leads"
    ELSE MemberLoop(req.members, 1, {})

\* ------------------------------------------------------------------ store
\* A row of public.teams (src/config/supabase.js 25-63, and the columns the
\* registration route writes); id 0 is the null of a lookup that found no row.
TeamRow(id, name, domain, size, orderId, amount, status, initiatedAt) ==
    [id |-> id, team_name |-> name, domain |-> domain, team_size |-> size,
     razorpay_order_id |-> orderId, amount_in_paise |-> amount,
     payment_status |-> status, payment_initiated_at |-> initiatedAt,
     razorpay_payment_id |-> Empty, payment_verified_at |-> 0]
NullTeam == TeamRow(0, Empty, "", 0, Empty, 0, "", 0)

\* .from('teams').select('id').eq('team_name', teamName)
TeamsNamed(tms, name) == { i \in 1..Len(tms) : tms[i].team_name = name }

\* .single(): the row when exactly one row matches; otherwise data is null
\* (and error is set).
Single(tms, ids) ==
    IF Cardinality(ids) = 1 THEN tms[CHOOSE i \in ids : TRUE] ELSE NullTeam

\* .from('registrations').select('email').in('email', members.map(m => m.email))
ExistingMembers(regs, members) ==
    { i \in 1..Len(regs) : \E j \in 1..Len(members) : regs[i].email = members[j].email }

\* .from('teams').select('*').eq('id', teamId).single()
TeamById(tms, teamId) == Single(tms, { i \in 1..Len(tms) : tms[i].id = teamId })

\* The rows the conditional update addresses:
\* .eq('id', teamId).eq('payment_status', 'Initiated')
\* (the update of the earlier handler, src/unnamed/part_000 159-166: .eq('id', teamId))
UpdateFilterIdOnly(row, teamId) == row.id = teamId
UpdateFilter(row, teamId) == row.id = teamId /\ row.payment_status = "Initiated"

\* updateData, lines 195-199
UpdateDataNoStatus(row, paymentId, now) ==
    [row EXCEPT !.razorpay_payment_id = paymentId, !.payment_verified_at = now]
UpdateData(row, paymentId, now) ==
    [row EXCEPT !.payment_status = "Completed",
                !.razorpay_payment_id = paymentId,
                !.payment_verified_at = now]

\* .from('teams').update(updateData).eq(...).eq(...).select(): one statement,
\* atomic at the store.
UpdatedIds(tms, teamId) == { i \in 1..Len(tms) : UpdateFilter(tms[i], teamId) }
\* (the update without .eq('id', teamId))
UpdateTeamsEveryInitiated(tms, teamId, paymentId, now) ==
    [i \in 1..Len(tms) |->
        IF tms[i].payment_status = "Initiated" THEN UpdateData(tms[i], paymentId, now)
        ELSE tms[i]]
UpdateTeams(tms, teamId, paymentId, now) ==
    [i \in 1..Len(tms) |->
        IF i \in UpdatedIds(tms, teamId) THEN UpdateData(tms[i], paymentId, now)
        ELSE tms[i]]

\* memberData, lines 232-240
MemberRow(teamId, m) ==
    [team_id |-> teamId, name |-> m.name, email |-> m.email, phone |-> m.phone,
     college |-> m.college, role |-> m.role,
     roll_number |-> IF m.rollNumber # "" THEN m.rollNumber ELSE m.roll_number]
MemberData(teamId, members) ==
    [i \in 1..Len(members) |-> MemberRow(teamId, members[i])]

\* error.message of a failed call, as the words it is made of.
StoreFault == <<"fetch failed">>
GatewayFault == <<"order creation failed">>
UniqueViolation == <<"duplicate key value", "violates", "unique", "constraint">>
NotNullViolation == <<"null value", "violates", "not-null", "constraint">>
CheckViolation == <<"new row", "violates", "check", "constraint">>
ForeignKeyViolation == <<"insert", "violates", "foreign key", "constraint">>

\* String.prototype.includes on a message.
Includes(message, part) == \E i \in 1..Len(message) : message[i] = part

\* Constraints of public.registrations (src/config/supabase.js 65-81): the
\* not-null columns, the role check and the foreign key to teams.
RowAllowed(tms, row) ==
    /\ row.name # "" /\ row.email # "" /\ row.phone # "" /\ row.college # ""
    /\ row.role \in Roles
    /\ \E i \in 1..Len(tms) : tms[i].id = row.team_id
\* The unique violation the handler expects (razorpayRoute.js 260: "duplicate
\* roll_number"): a roll number stored already, or twice in the batch.
RollTaken(regs, rows) ==
    \/ \E i \in 1..Len(rows), j \in 1..Len(regs) : rows[i].roll_number = regs[j].roll_number
    \/ \E i, j \in 1..Len(rows) : i # j /\ rows[i].roll_number = rows[j].roll_number

\* The constraint a row violates, as the message of the store's error.
RowError(tms, row) ==
    IF row.name = "" \/ row.email = "" \/ row.phone = "" \/ row.college = ""
    THEN NotNullViolation
    ELSE IF row.role \notin Roles THEN CheckViolation
    ELSE IF ~RowAllowed(tms, row) THEN ForeignKeyViolation
    ELSE Empty

\* membersInsertError.message of .from('registrations').insert(memberData);
\* Empty when the insert succeeded.  fault is an error of the store itself
\* (connection, timeout).
InsertError(tms, regs, rows, fault) ==
    IF fault THEN StoreFault
    ELSE IF \E i \in 1..Len(rows) : ~RowAllowed(tms, rows[i])
    THEN RowError(tms, rows[CHOOSE i \in 1..Len(rows) : ~RowAllowed(tms, rows[i])])
    ELSE IF RollTaken(regs, rows) THEN UniqueViolation
    ELSE Empty

\* (any violated constraint taken for a unique violation)
IsConstraintViolation(errorMessage) == Includes(errorMessage, "constraint")
\* errorMessage.includes('duplicate key value') || errorMessage.includes('unique'),
\* line 262
IsUniqueViolation(errorMessage) ==
    Includes(errorMessage, "duplicate key value") \/ Includes(errorMessage, "unique")

\* The outcome of the insert as the handler tells it from the error: the whole
\* batch is stored or nothing is.
InsertOutcome(tms, regs, rows, fault) ==
    LET errorMessage == InsertError(tms, regs, rows, fault) IN
    IF errorMessage = Empty THEN "ok"
    ELSE IF IsUniqueViolation(errorMessage) THEN "unique"
    ELSE "error"

\* -------------------------------------------------------------- responses
Resp(status, message) ==
    [status |-> status, message |-> message, teamId |-> 0, orderId |-> Empty,
     paymentId |-> Empty, memberCount |-> 0, amountInPaise |-> 0,
     detail |-> Empty]
NoResp == Resp(0, "")

\* process.env.NODE_ENV === 'development' ? error.message : undefined
Diagnostic(errorMessage) ==
    IF nodeEnv = "development" THEN errorMessage ELSE Empty
\* An error response of the registration and verify-payment handlers: the
\* fixed message, and the message of the error under the key error / details.
Failure(status, message, errorMessage) ==
    [Resp(status, message) EXCEPT !.detail = Diagnostic(errorMessage)]

\* ------------------------------------------------- POST /registration
NoRegReq == [teamName |-> Empty, domain |-> "", members |-> << >>]
IdleReg == [pc |-> "idle", req |-> NoRegReq, razorpayOrder |-> Empty, resp |-> NoResp]

\* totalAmountInPaise, lines 151-153
TotalAmountInRupees(members) == Len(members) * ChargePerMember
\* (the amount left in rupees)
TotalAmountNotConverted(members) == TotalAmountInRupees(members)
TotalAmountInPaise(members) == TotalAmountInRupees(members) * 100

\* new Date() / Date.now() in handler p: every handler reads its own time.
Now(p) == p

\* The row of the team insert, lines 183-193.
NewTeamDefaultStatus(id, req, orderId, now) ==
    TeamRow(id, req.teamName, req.domain, Len(req.members), orderId,
            TotalAmountInPaise(req.members), "Pending", now)
NewTeam(id, req, orderId, now) ==
    TeamRow(id, req.teamName, req.domain, Len(req.members), orderId,
            TotalAmountInPaise(req.members), "Initiated", now)

\* The reply of .insert([...]).select().single() on teams: the stored row, with
\* the id the store assigned.
InsertTeam(tms, req, orderId, now) ==
    Append(tms, NewTeam(Len(tms) + 1, req, orderId, now))

\* The 201 body, lines 202-218.
Created(team, req, orderId) ==
    [Resp(201, "Payment order created") EXCEPT
        !.teamId = team.id, !.orderId = orderId,
        !.memberCount = Len(req.members),
        !.amountInPaise = TotalAmountInPaise(req.members)]

RegFinish(p, resp) ==
    reg' = [reg EXCEPT ![p].pc = "done", ![p].resp = resp]

\* Lines 39-119: the request arrives and is validated; no await yet.
RegReceive(p, req) ==
    /\ reg[p].pc = "idle"
    /\ \A q \in RegSlots : q < p => reg[q].pc # "idle"
    /\ LET v == ValidateRegistration(req) IN
        IF v = "ok"
        THEN reg' = [reg EXCEPT ![p].pc = "nameCheck", ![p].req = req]
        ELSE RegFinish(p, Resp(400, v))
    /\ UNCHANGED <<teams, registrations, orders, razorpayInstance, nodeEnv, co, ver>>

\* (the order created before the name is looked up)
RegNameCheckAfterOrder(p) ==
    /\ reg[p].pc = "nameCheck"
    /\ orders' = Append(orders, [amount |-> TotalAmountInPaise(reg[p].req.members),
                                 currency |-> "INR",
                                 receipt |-> <<reg[p].req.teamName, Now(p)>>])
    /\ IF Single(teams, TeamsNamed(teams, reg[p].req.teamName)).id # 0
       THEN RegFinish(p, Resp(400, "Team name already exists"))
       ELSE reg' = [reg EXCEPT ![p].pc = "emailCheck"]
    /\ UNCHANGED <<teams, registrations, razorpayInstance, nodeEnv, co, ver>>

\* Lines 121-133: the lookup of the team name; its error is not inspected.
RegNameCheck(p) ==
    /\ reg[p].pc = "nameCheck"
    /\ \E fault \in BOOLEAN :
        LET existingTeam == IF fault THEN NullTeam
                            ELSE Single(teams, TeamsNamed(teams, reg[p].req.teamName)) IN
        IF existingTeam.id # 0
        THEN RegFinish(p, Resp(400, "Team name already exists"))
        ELSE reg' = [reg EXCEPT ![p].pc = "emailCheck"]
    /\ UNCHANGED <<teams, registrations, orders, razorpayInstance, nodeEnv, co, ver>>

\* Lines 135-161: the lookup of the emails (error not inspected), the amount,
\* and the test of the payment client.
RegEmailCheck(p) ==
    /\ reg[p].pc = "emailCheck"
    /\ \E fault \in BOOLEAN :
        LET existingMembers == IF fault THEN {}
                               ELSE ExistingMembers(registrations, reg[p].req.members) IN
        IF existingMembers # {}
        THEN RegFinish(p, Resp(400, "Some emails are already registered"))
        ELSE IF ~razorpayInstance
        THEN RegFinish(p, Resp(500, "Payment gateway not initialized"))
        ELSE reg' = [reg EXCEPT ![p].pc = "createOrder"]
    /\ UNCHANGED <<teams, registrations, orders, razorpayInstance, nodeEnv, co, ver>>

\* (a rejection of orders.create caught without the return)
RegCreateOrderSwallowed(p) ==
    /\ reg[p].pc = "createOrder"
    /\ \/ /\ orders' = Append(orders, [amount |-> TotalAmountInPaise(reg[p].req.members),
                                       currency |-> "INR",
                                       receipt |-> <<reg[p].req.teamName, Now(p)>>])
          /\ reg' = [reg EXCEPT ![p].pc = "insertTeam",
                                ![p].razorpayOrder = OrderIdOf(Len(orders) + 1)]
       \/ /\ reg' = [reg EXCEPT ![p].pc = "insertTeam"]
          /\ UNCHANGED orders
    /\ UNCHANGED <<teams, registrations, razorpayInstance, nodeEnv, co, ver>>

\* Lines 163-178: razorpayInstance.orders.create; a rejection is answered 500.
RegCreateOrder(p) ==
    /\ reg[p].pc = "createOrder"
    /\ \/ /\ orders' = Append(orders, [amount |-> TotalAmountInPaise(reg[p].req.members),
                                       currency |-> "INR",
                                       receipt |-> <<reg[p].req.teamName, Now(p)>>])
          /\ reg' = [reg EXCEPT ![p].pc = "insertTeam",
                                ![p].razorpayOrder = OrderIdOf(Len(orders) + 1)]
       \/ /\ RegFinish(p, Failure(500, "Failed to create payment order", GatewayFault))
          /\ UNCHANGED orders
    /\ UNCHANGED <<teams, registrations, razorpayInstance, nodeEnv, co, ver>>

\* (a failed insert sends the handler back to create an order again)
RegInsertTeamRetried(p) ==
    /\ reg[p].pc = "insertTeam"
    /\ \/ /\ teams' = InsertTeam(teams, reg[p].req, reg[p].razorpayOrder, Now(p))
          /\ RegFinish(p, Created(teams'[Len(teams')], reg[p].req, reg[p].razorpayOrder))
       \/ /\ reg' = [reg EXCEPT ![p].pc = "createOrder"]
          /\ UNCHANGED teams
    /\ UNCHANGED <<registrations, orders, razorpayInstance, nodeEnv, co, ver>>

\* Lines 180-226: the team insert and the 201 response; an insert error is
\* thrown to the catch block, which answers 500.
RegInsertTeam(p) ==
    /\ reg[p].pc = "insertTeam"
    /\ \/ /\ teams' = InsertTeam(teams, reg[p].req, reg[p].razorpayOrder, Now(p))
          /\ RegFinish(p, Created(teams'[Len(teams')], reg[p].req, reg[p].razorpayOrder))
       \/ /\ RegFinish(p, Failure(500, "An error occurred during registration", StoreFault))
          /\ UNCHANGED teams
    /\ UNCHANGED <<registrations, orders, razorpayInstance, nodeEnv, co, ver>>

\* ------------------------------------------- POST /razorpay/verify-payment
\* A signature is a string: the empty string, a digest, or part of one.
NoSignature == [key |-> "", msg |-> Empty, len |-> 0]
NoVerReq ==
    [teamId |-> 0, razorpayPaymentId |-> Empty, razorpayOrderId |-> Empty,
     razorpaySignature |-> NoSignature, members |-> << >>]
IdleVer ==
    [pc |-> "idle", req |-> NoVerReq, resp |-> NoResp, storeError |-> FALSE]

\* Lines 92-94: if (!m.rollNumber && m.roll_number) m.rollNumber = m.roll_number
WithRollNumber(m) ==
    IF m.rollNumber = "" /\ m.roll_number # ""
    THEN [m EXCEPT !.rollNumber = m.roll_number] ELSE m
NormaliseMembers(members) == [i \in 1..Len(members) |-> WithRollNumber(members[i])]

\* expectedSignature !== razorpaySignature, line 124: equality of the strings.
SignaturePrefixMatches(expected, received) ==
    /\ received.len > 0
    /\ Prefix(expected, received.len) = received
SignatureMatches(expected, received) == expected = received

\* (the signature compared before the fields are checked)
VerifyGateSignatureFirst(req) ==
    IF ~SignatureMatches(ExpectedSignature(req.razorpayOrderId, req.razorpayPaymentId),
                         req.razorpaySignature)
    THEN "Invalid payment signature. Possible fraud attempt."
    ELSE IF \/ req.teamId = 0
            \/ ~Present(req.razorpayPaymentId)
            \/ ~Present(req.razorpayOrderId)
            \/ req.razorpaySignature.len = 0
    THEN "Missing required payment verification fields"
    ELSE IF Len(req.members) = 0 THEN "Members array is required"
    ELSE IF \E i \in 1..Len(req.members) : WithRollNumber(req.members[i]).rollNumber = ""
    THEN "Member is missing rollNumber"
    ELSE "ok"

\* The checks of verify-payment that precede its first await, lines 65-134.
VerifyGate(req) ==
    IF \/ req.teamId = 0
       \/ ~Present(req.razorpayPaymentId)
       \/ ~Present(req.razorpayOrderId)
       \/ req.razorpaySignature.len = 0
    THEN "Missing required payment verification fields"
    ELSE IF Len(req.members) = 0 THEN "Members array is required"
    ELSE IF \E i \in 1..Len(req.members) : WithRollNumber(req.members[i]).rollNumber = ""
    THEN "Member is missing rollNumber"
    ELSE IF ~SignatureMatches(ExpectedSignature(req.razorpayOrderId, req.razorpayPaymentId),
                              req.razorpaySignature)
    THEN "Invalid payment signature. Possible fraud attempt."
    ELSE "ok"

\* team.razorpay_order_id !== razorpayOrderId, line 181
OrderIdUnchecked(team, orderId) == TRUE
OrderIdMatches(team, orderId) == team.razorpay_order_id = orderId

\* The 200 body, lines 275-285.
Verified(req) ==
    [Resp(200, "Payment verified and team registration completed") EXCEPT
        !.teamId = req.teamId, !.orderId = req.razorpayOrderId,
        !.paymentId = req.razorpayPaymentId, !.memberCount = Len(req.members)]

\* (the handler returns without sending the response)
VerReturnWithoutResponse(p, resp, fault) ==
    ver' = [ver EXCEPT ![p].pc = "returned"]
\* storeError records that a call on the store failed in the store itself
\* (connection, timeout), as opposed to a violated constraint.
VerFinish(p, resp, fault) ==
    ver' = [ver EXCEPT ![p].pc = "done", ![p].resp = resp,
                       ![p].storeError = ver[p].storeError \/ fault]

\* Lines 49-134: the request arrives; presence, rollNumber and signature are
\* checked before any store call.
VerReceive(p, req) ==
    /\ ver[p].pc = "idle"
    /\ \A q \in VerSlots : q < p => ver[q].pc # "idle"
    /\ LET v == VerifyGate(req) IN
        IF v = "ok"
        THEN ver' = [ver EXCEPT ![p].pc = "lookup",
                                ![p].req = [req EXCEPT !.members = NormaliseMembers(req.members)]]
        ELSE VerFinish(p, Resp(400, v), FALSE)
    /\ UNCHANGED <<teams, registrations, orders, razorpayInstance, nodeEnv, co, reg>>

\* teamError || !team, line 156
TeamMissingOnErrorOnly(team, teamError) == teamError
TeamMissing(team, teamError) == teamError \/ team.id = 0

\* Lines 138-190: the team lookup and the comparison of the order ids.
VerLookup(p) ==
    /\ ver[p].pc = "lookup"
    /\ \E fault \in BOOLEAN :
        LET team == IF fault THEN NullTeam ELSE TeamById(teams, ver[p].req.teamId) IN
        IF TeamMissing(team, fault)
        THEN VerFinish(p, Resp(404, "Team not found"), fault)
        ELSE IF ~OrderIdMatches(team, ver[p].req.razorpayOrderId)
        THEN VerFinish(p, Resp(400, "Order ID mismatch"), FALSE)
        ELSE ver' = [ver EXCEPT ![p].pc = "update"]
    /\ UNCHANGED <<teams, registrations, orders, razorpayInstance, nodeEnv, co, reg>>

\* !updatedTeam || updatedTeam.length === 0, line 221
NothingUpdatedIgnored(updated) == FALSE
NothingUpdated(updated) == updated = {}

\* (the error of the update not thrown: the handler goes on to the insert)
VerUpdateErrorIgnored(p) ==
    /\ ver[p].pc = "update"
    /\ \/ /\ ver' = [ver EXCEPT ![p].pc = "insert", ![p].storeError = TRUE]
          /\ UNCHANGED teams
       \/ /\ teams' = UpdateTeams(teams, ver[p].req.teamId, ver[p].req.razorpayPaymentId, Now(p))
          /\ IF NothingUpdated(UpdatedIds(teams, ver[p].req.teamId))
             THEN VerFinish(p, Resp(409, "Payment already verified for this team"), FALSE)
             ELSE ver' = [ver EXCEPT ![p].pc = "insert"]
    /\ UNCHANGED <<registrations, orders, razorpayInstance, nodeEnv, co, reg>>

\* Lines 192-227: the conditional update.  An error is thrown (500); no updated
\* row means the team was finalized already (409).
VerUpdate(p) ==
    /\ ver[p].pc = "update"
    /\ \/ /\ VerFinish(p, Failure(500, "An error occurred during payment verification",
                                     StoreFault), TRUE)
          /\ UNCHANGED teams
       \/ /\ teams' = UpdateTeams(teams, ver[p].req.teamId, ver[p].req.razorpayPaymentId, Now(p))
          /\ IF NothingUpdated(UpdatedIds(teams, ver[p].req.teamId))
             THEN VerFinish(p, Resp(409, "Payment already verified for this team"), FALSE)
             ELSE ver' = [ver EXCEPT ![p].pc = "insert"]
    /\ UNCHANGED <<registrations, orders, razorpayInstance, nodeEnv, co, reg>>

\* (the payment id taken off the team again)
TeamsPaymentCleared(tms, teamId) ==
    [i \in 1..Len(tms) |->
        IF tms[i].id = teamId THEN [tms[i] EXCEPT !.razorpay_payment_id = Empty] ELSE tms[i]]
\* What the handler writes to teams when the member insert failed: nothing
\* (lines 258-270 and the catch block 286-300 issue no store call).
TeamsRolledBack(tms, teamId) ==
    [i \in 1..Len(tms) |->
        IF tms[i].id = teamId THEN [tms[i] EXCEPT !.payment_status = "Initiated"] ELSE tms[i]]
TeamsAfterInsertError(tms, teamId) == tms

\* Lines 229-300: the member batch.  A unique violation is answered 409, any
\* other error is thrown (500), success is answered 200.
VerInsert(p) ==
    /\ ver[p].pc = "insert"
    /\ \E fault \in BOOLEAN :
        LET rows == MemberData(ver[p].req.teamId, ver[p].req.members)
            errorMessage == InsertError(teams, registrations, rows, fault)
            outcome == InsertOutcome(teams, registrations, rows, fault) IN
        CASE outcome = "ok" ->
                /\ registrations' = registrations \o rows
                /\ VerFinish(p, Verified(ver[p].req), FALSE)
                /\ UNCHANGED teams
          [] outcome = "unique" ->
                /\ VerFinish(p, Failure(409, "Some registrations already exist (unique constraint)",
                                         errorMessage), FALSE)
                /\ teams' = TeamsAfterInsertError(teams, ver[p].req.teamId)
                /\ UNCHANGED registrations
          [] OTHER ->
                /\ VerFinish(p, Failure(500, "An error occurred during payment verification",
                                         errorMessage), fault)
                /\ teams' = TeamsAfterInsertError(teams, ver[p].req.teamId)
                /\ UNCHANGED registrations
    /\ UNCHANGED <<orders, razorpayInstance, nodeEnv, co, reg>>

\* ------------------- the earlier verify-payment, src/unnamed/part_000 95-205
\* The checks that precede its first await, lines 99-126: no rollNumber check.
LegacyGate(req) ==
    IF \/ req.teamId = 0
       \/ ~Present(req.razorpayPaymentId)
       \/ ~Present(req.razorpayOrderId)
       \/ req.razorpaySignature.len = 0
    THEN "Missing required payment verification fields"
    ELSE IF Len(req.members) = 0 THEN "Members array is required"
    ELSE IF ExpectedSignature(req.razorpayOrderId, req.razorpayPaymentId) # req.razorpaySignature
    THEN "Invalid payment signature. Possible fraud attempt."
    ELSE "ok"

\* Lines 95-126: the request arrives.
LegacyReceive(p, req) ==
    /\ ver[p].pc = "idle"
    /\ \A q \in VerSlots : q < p => ver[q].pc # "idle"
    /\ LET v == LegacyGate(req) IN
        IF v = "ok"
        THEN ver' = [ver EXCEPT ![p].pc = "lookup", ![p].req = req]
        ELSE VerFinish(p, Resp(400, v), FALSE)
    /\ UNCHANGED <<teams, registrations, orders, razorpayInstance, nodeEnv, co, reg>>

\* Lines 128-156: the team lookup, the test of the status that was read, and
\* the comparison of the order ids.
LegacyLookup(p) ==
    /\ ver[p].pc = "lookup"
    /\ \E fault \in BOOLEAN :
        LET team == IF fault THEN NullTeam ELSE TeamById(teams, ver[p].req.teamId) IN
        IF fault \/ team.id = 0
        THEN VerFinish(p, Resp(404, "Team not found"), fault)
        ELSE IF team.payment_status # "Initiated"
        THEN VerFinish(p, Resp(400, "Team payment is not in Initiated state"), FALSE)
        ELSE IF team.razorpay_order_id # ver[p].req.razorpayOrderId
        THEN VerFinish(p, Resp(400, "Order ID mismatch"), FALSE)
        ELSE ver' = [ver EXCEPT ![p].pc = "update"]
    /\ UNCHANGED <<teams, registrations, orders, razorpayInstance, nodeEnv, co, reg>>

\* .update({...}).eq('id', teamId), lines 159-166: the row is addressed by its
\* id alone, and the number of updated rows is not read.
LegacyUpdateTeams(tms, teamId, paymentId, now) ==
    [i \in 1..Len(tms) |->
        IF tms[i].id = teamId THEN UpdateData(tms[i], paymentId, now) ELSE tms[i]]

\* Lines 158-168: the update; an error is thrown (500).
LegacyUpdate(p) ==
    /\ ver[p].pc = "update"
    /\ \/ /\ VerFinish(p, Failure(500, "An error occurred during payment verification",
                                     StoreFault), TRUE)
          /\ UNCHANGED teams
       \/ /\ teams' = LegacyUpdateTeams(teams, ver[p].req.teamId,
                                         ver[p].req.razorpayPaymentId, Now(p))
          /\ ver' = [ver EXCEPT ![p].pc = "insert"]
    /\ UNCHANGED <<registrations, orders, razorpayInstance, nodeEnv, co, reg>>

\* memberData, lines 171-178: no roll_number, so the column is null.
LegacyMemberData(teamId, members) ==
    [i \in 1..Len(members) |->
        [MemberRow(teamId, members[i]) EXCEPT !.roll_number = ""]]

\* Lines 170-204: the member batch; every error is thrown (500).
LegacyInsert(p) ==
    /\ ver[p].pc = "insert"
    /\ \E fault \in BOOLEAN :
        LET rows == LegacyMemberData(ver[p].req.teamId, ver[p].req.members)
            refused == \E i \in 1..Len(rows) : ~RowAllowed(teams, rows[i]) IN
        IF fault \/ refused
        THEN /\ VerFinish(p, Failure(500, "An error occurred during payment verification",
                                      IF fault THEN StoreFault
                                      ELSE RowError(teams, rows[CHOOSE i \in 1..Len(rows) :
                                                                 ~RowAllowed(teams, rows[i])])),
                          fault)
             /\ UNCHANGED registrations
        ELSE /\ registrations' = registrations \o rows
             /\ VerFinish(p, Verified(ver[p].req), FALSE)
    /\ UNCHANGED <<teams, orders, razorpayInstance, nodeEnv, co, reg>>

\* --------------------------------------------- POST /razorpay/create-order
\* The amount of the request body, in rupees with three decimals, counted in
\* thousandths of a rupee; given is FALSE when the body has no amount.
CoReq(given, amount) == [given |-> given, amount |-> amount]
IdleCo == [pc |-> "idle", amountInPaise |-> 0, resp |-> NoResp]

\* Math.round(amountNum * 100) of a positive amount, line 29.
AmountInPaise(amount) == (amount + 5) \div 10

\* The 500 body of the catch block, lines 40-43: details is err.message.
CreateOrderFailed(errorMessage) ==
    [Resp(500, "failed to create order") EXCEPT !.detail = errorMessage]

CoFinish(resp) == co' = [co EXCEPT !.pc = "done", !.resp = resp]

\* Lines 11-36: the request arrives; the client and the amount are checked.
CoReceive(req) ==
    /\ co.pc = "idle"
    /\ IF ~razorpayInstance THEN CoFinish(Resp(500, "Razorpay not initialized"))
       ELSE IF ~req.given THEN CoFinish(Resp(400, "amount is required"))
       ELSE IF req.amount <= 0 THEN CoFinish(Resp(400, "amount must be a positive number"))
       ELSE co' = [co EXCEPT !.pc = "create", !.amountInPaise = AmountInPaise(req.amount)]
    /\ UNCHANGED <<teams, registrations, orders, razorpayInstance, nodeEnv, reg, ver>>

\* Lines 38-43: razorpayInstance.orders.create; the order is the 201 body, a
\* rejection is answered 500.
CoCreate ==
    /\ co.pc = "create"
    /\ \/ /\ orders' = Append(orders, [amount |-> co.amountInPaise, currency |-> "INR",
                                       receipt |-> <<"rcpt", 0>>])
          /\ CoFinish([Resp(201, "order") EXCEPT !.orderId = OrderIdOf(Len(orders) + 1),
                                                !.amountInPaise = co.amountInPaise])
       \/ /\ CoFinish(CreateOrderFailed(GatewayFault))
          /\ UNCHANGED orders
    /\ UNCHANGED <<teams, registrations, razorpayInstance, nodeEnv, reg, ver>>

\* ------------------------------------------------------ requests received
ListA == << Mem("e1", "Team Lead", "r1") >>
ListB == << Mem("e2", "Team Lead", "r2"), Mem("e1", "Member", "r3") >>

EmailNames == <<"e1", "e2", "e3", "e4", "e5", "e6">>

RegReq(name, domain, members) ==
    [teamName |-> name, domain |-> domain, members |-> members]

\* Requests that pass the validation of the request body.
GoodRegRequests ==
    { RegReq(<<"Alpha">>, "Web Dev", ListA),
      RegReq(<<"Beta">>, "UI/UX", ListB) }

\* One request for each way of failing it.
BadRegRequests ==
    { RegReq(<<" ">>, "Web Dev", ListA),
      RegReq(<<"Alpha">>, "Robotics", ListA),
      RegReq(<<"Alpha">>, "Web Dev", << >>),
      RegReq(<<"Alpha">>, "Web Dev",
             [i \in 1..(MaxMembers + 1) |->
                 Mem(EmailNames[i], IF i = 1 THEN "Team Lead" ELSE "Member", "")]),
      RegReq(<<"Alpha">>, "Web Dev", << Mem("e1", "Member", "") >>),
      RegReq(<<"Alpha">>, "Web Dev", << Mem("e1", "Team Lead", ""), Mem("e2", "Team Lead", "") >>),
      RegReq(<<"Alpha">>, "Web Dev", << Mem("e1", "Team Lead", ""), Mem("e1", "Member", "") >>),
      RegReq(<<"Alpha">>, "Web Dev", << [Mem("e1", "Team Lead", "") EXCEPT !.phone = ""] >>),
      RegReq(<<"Alpha">>, "Web Dev", << Mem("e1", "Team Lead", ""), Mem("e2", "Captain", "") >>) }

RegRequests == GoodRegRequests \cup BadRegRequests

VerReq(teamId, paymentId, orderId, signature, members) ==
    [teamId |-> teamId, razorpayPaymentId |-> paymentId, razorpayOrderId |-> orderId,
     razorpaySignature |-> signature, members |-> members]

OrderIds == { OrderIdOf(k) : k \in 1..NReg }
TeamIds == 1..NReg

\* The payment id and the member list a client sends along.
Payloads == { << <<"pay", 1>>, ListA >>, << <<"pay", 2>>, ListB >> }

\* Requests signed by the gateway for the order and payment they name.
GoodVerRequests ==
    { VerReq(t, pl[1], o, ExpectedSignature(o, pl[1]), pl[2]) :
        t \in TeamIds, o \in OrderIds, pl \in Payloads }

\* Signatures that are not the digest of the request's order and payment id:
\* under another key, a prefix of the digest, the digest of another payment.
BadSignatures(o, pay) ==
    { Hmac(OtherKey, SignedBody(o, pay)),
      Prefix(ExpectedSignature(o, pay), PrefixLen) }
    \cup { ExpectedSignature(o, other) : other \in PaymentIds \ {pay} }

ForgedVerRequests ==
    UNION { { VerReq(t, <<"pay", 1>>, o, sig, ListA) :
                t \in TeamIds, sig \in BadSignatures(o, <<"pay", 1>>) } : o \in OrderIds }

\* One request for each way of failing the presence checks, one that gives
\* the roll number as roll_number, and three that fail the presence checks and
\* carry a signature that is not the digest.
MalformedVerRequests ==
    LET o == OrderIdOf(1)
        pay == <<"pay", 1>>
        sig == ExpectedSignature(o, pay) IN
    { VerReq(0, pay, o, sig, ListA),
      VerReq(1, Empty, o, ExpectedSignature(o, Empty), ListA),
      VerReq(1, pay, Empty, ExpectedSignature(Empty, pay), ListA),
      VerReq(1, pay, o, NoSignature, ListA),
      VerReq(1, pay, o, sig, << >>),
      VerReq(1, pay, o, sig, << Mem("e1", "Team Lead", "") >>),
      VerReq(1, pay, o, sig, << [Mem("e1", "Team Lead", "") EXCEPT !.roll_number = "r1"] >>),
      VerReq(0, pay, o, Hmac(OtherKey, SignedBody(o, pay)), ListA),
      VerReq(1, pay, o, Hmac(OtherKey, SignedBody(o, pay)), << >>),
      VerReq(2, pay, o, Prefix(sig, PrefixLen), << Mem("e1", "Team Lead", "") >>) }

VerRequests == GoodVerRequests \cup ForgedVerRequests \cup MalformedVerRequests

\* Member lists for the validation of the request body alone: every length
\* from 0 to one more than allowed, every choice of the Team Leads, the emails
\* all different or one pair of members sharing one, and optionally one
\* member with an unknown role or without a phone.
MemberList(n, leads, dup, defect) ==
    [i \in 1..n |->
        LET m == Mem(IF i = dup[2] THEN EmailNames[dup[1]] ELSE EmailNames[i],
                     IF i \in leads THEN "Team Lead" ELSE "Member", "") IN
        IF i = n /\ defect = "role" THEN [m EXCEPT !.role = "Captain"]
        ELSE IF i = n /\ defect = "phone" THEN [m EXCEPT !.phone = ""]
        ELSE m]

WideMemberLists ==
    UNION { { MemberList(n, leads, dup, "none") :
                leads \in SUBSET (1..n),
                dup \in {<<0, 0>>} \cup { <<i, j>> : i, j \in 1..n } }
            \cup { MemberList(n, leads, <<0, 0>>, defect) :
                leads \in SUBSET (1..n), defect \in {"role", "phone"} }
          : n \in 0..(MaxMembers + 1) }

WideRegRequests == { RegReq(<<"Alpha">>, "Web Dev", m) : m \in WideMemberLists }

\* Member lists a client may send to verify-payment: every length from 0 to
\* one more than a team may have, every choice of the Team Leads, the roll
\* numbers all different or the first two equal, and optionally a last member
\* with an unknown role or without a roll number.
RollNames == <<"r1", "r2", "r3", "r4", "r5", "r6">>
VerMemberList(n, leads, sameRoll, defect) ==
    [i \in 1..n |->
        LET m == Mem(EmailNames[i],
                     IF i \in leads THEN "Team Lead" ELSE "Member",
                     IF sameRoll /\ i = 2 THEN RollNames[1] ELSE RollNames[i]) IN
        IF i = n /\ defect = "role" THEN [m EXCEPT !.role = "Captain"]
        ELSE IF i = n /\ defect = "roll" THEN [m EXCEPT !.rollNumber = ""]
        ELSE m]

WideVerLists ==
    UNION { { VerMemberList(n, leads, sameRoll, defect) :
                leads \in SUBSET (1..n), sameRoll \in BOOLEAN,
                defect \in {"none", "role", "roll"} }
          : n \in 0..(MaxMembers + 1) }

\* Requests signed by the gateway for the first order, with such a list.
WideVerRequests ==
    { VerReq(1, <<"pay", 1>>, OrderIdOf(1),
             ExpectedSignature(OrderIdOf(1), <<"pay", 1>>), m) : m \in WideVerLists }

\* Bodies of POST /razorpay/create-order: no amount, zero, a negative amount,
\* 100 rupees, 1.996 rupees.
CoRequests ==
    { CoReq(FALSE, 0), CoReq(TRUE, 0), CoReq(TRUE, -1000),
      CoReq(TRUE, 100000), CoReq(TRUE, 1996) }

\* ---------------------------------------------------------- specification
Init ==
    /\ teams = << >>
    /\ registrations = << >>
    /\ orders = << >>
    /\ razorpayInstance \in BOOLEAN
    /\ nodeEnv = "production"
    /\ reg = [p \in RegSlots |-> IdleReg]
    /\ ver = [p \in VerSlots |-> IdleVer]
    /\ co = IdleCo

Register(p) == \E req \in RegRequests : RegReceive(p, req)
Verify(p) == \E req \in VerRequests : VerReceive(p, req)

Next ==
    \/ \E p \in RegSlots :
        Register(p) \/ RegNameCheck(p) \/ RegEmailCheck(p) \/ RegCreateOrder(p) \/ RegInsertTeam(p)
    \/ \E p \in VerSlots :
        Verify(p) \/ VerLookup(p) \/ VerUpdate(p) \/ VerInsert(p)

Spec == Init /\ [][Next]_vars

\* One registration, its member list drawn from WideMemberLists.
RegisterWide == \E req \in WideRegRequests : RegReceive(1, req)
NextValidation ==
    RegisterWide \/ RegNameCheck(1) \/ RegEmailCheck(1) \/ RegCreateOrder(1) \/ RegInsertTeam(1)
ValidationSpec == Init /\ [][NextValidation]_vars

\* One registration and one verify-payment call, the member list of the call
\* drawn from WideVerLists.
VerifyWide == \E req \in WideVerRequests : VerReceive(1, req)
NextFinalize ==
    \/ Register(1) \/ RegNameCheck(1) \/ RegEmailCheck(1) \/ RegCreateOrder(1) \/ RegInsertTeam(1)
    \/ VerifyWide \/ VerLookup(1) \/ VerUpdate(1) \/ VerInsert(1)
FinalizeSpec == Init /\ [][NextFinalize]_vars

\* The three endpoints, one request each, in a process started in either mode.
InitAnyMode ==
    /\ teams = << >>
    /\ registrations = << >>
    /\ orders = << >>
    /\ razorpayInstance \in BOOLEAN
    /\ nodeEnv \in {"development", "production"}
    /\ reg = [p \in RegSlots |-> IdleReg]
    /\ ver = [p \in VerSlots |-> IdleVer]
    /\ co = IdleCo
CreateOrder == \E req \in CoRequests : CoReceive(req)
NextDiagnostics ==
    \/ Register(1) \/ RegNameCheck(1) \/ RegEmailCheck(1) \/ RegCreateOrder(1) \/ RegInsertTeam(1)
    \/ Verify(1) \/ VerLookup(1) \/ VerUpdate(1) \/ VerInsert(1)
    \/ CreateOrder \/ CoCreate
DiagnosticsSpec == InitAnyMode /\ [][NextDiagnostics]_vars

\* One registration, and the verify-payment calls served by the earlier
\* handler of src/unnamed/part_000.
LegacyVerify(p) == \E req \in VerRequests : LegacyReceive(p, req)
NextLegacy ==
    \/ Register(1) \/ RegNameCheck(1) \/ RegEmailCheck(1) \/ RegCreateOrder(1) \/ RegInsertTeam(1)
    \/ \E p \in VerSlots :
        LegacyVerify(p) \/ LegacyLookup(p) \/ LegacyUpdate(p) \/ LegacyInsert(p)
LegacySpec == Init /\ [][NextLegacy]_vars

\* One registration and the verify-payment calls, every awaited call
\* returning: the continuation of a handler whose awaited call has returned
\* is run by the event loop, so each step of a handler that is under way is
\* weakly fair.  The arrival of a request is not.
NextFair ==
    \/ Register(1) \/ RegNameCheck(1) \/ RegEmailCheck(1) \/ RegCreateOrder(1) \/ RegInsertTeam(1)
    \/ \E p \in VerSlots : Verify(p) \/ VerLookup(p) \/ VerUpdate(p) \/ VerInsert(p)
Fairness ==
    /\ WF_vars(RegNameCheck(1)) /\ WF_vars(RegEmailCheck(1))
    /\ WF_vars(RegCreateOrder(1)) /\ WF_vars(RegInsertTeam(1))
    /\ \A p \in VerSlots :
        WF_vars(VerLookup(p)) /\ WF_vars(VerUpdate(p)) /\ WF_vars(VerInsert(p))
FairSpec == Init /\ [][NextFair]_vars /\ Fairness

\* ------------------------------------------------------------- properties
Done(h) == h.pc = "done"
AlreadyVerified == Resp(409, "Payment already verified for this team")

\* The handler has executed its conditional update on the store (whatever the
\* update returned, short of an error of which nothing is known).
PastUpdate(h) ==
    \/ h.pc = "insert"
    \/ Done(h) /\ h.resp.status \in {200, 409}
    \/ Done(h) /\ h.resp.status = 500

\* The rows of registrations that reference team t, in the order stored.
RowsOf(t) == SelectSeq(registrations, LAMBDA r : r.team_id = t)

\* No roll number of the member list is stored for another team.
RollsFree(t, members) ==
    \A i \in 1..Len(registrations), j \in 1..Len(members) :
        registrations[i].roll_number = MemberRow(t, members[j]).roll_number
            => registrations[i].team_id = t

\* Two finished calls with the same payload that both found the team under the
\* order id they name, while no other call has updated that team, no store
\* call failed in the store, and the member list is free to be stored.
SamePayloadPair(p, q) ==
    /\ p # q
    /\ Done(ver[p]) /\ Done(ver[q])
    /\ ver[p].req = ver[q].req
    /\ PastUpdate(ver[p]) /\ PastUpdate(ver[q])
    /\ ~ver[p].storeError /\ ~ver[q].storeError
    /\ RollsFree(ver[p].req.teamId, ver[p].req.members)
    /\ \A r \in VerSlots \ {p, q} :
        ver[r].req.teamId = ver[p].req.teamId => ~PastUpdate(ver[r])

\* C1: of two verify-payment calls with the same valid payload for one team,
\* under every interleaving exactly one is answered 200 (paymentStatus
\* Completed) and stores the member batch once; the other is answered 409
\* "already verified" and stores nothing.
C1_ExactlyOneFinalizes ==
    \A p, q \in VerSlots :
        SamePayloadPair(p, q) =>
            LET t == ver[p].req.teamId IN
            /\ \E w \in {p, q} :
                /\ ver[w].resp = Verified(ver[w].req)
                /\ \A l \in {p, q} \ {w} : ver[l].resp = AlreadyVerified
            /\ RowsOf(t) = MemberData(t, ver[p].req.members)
            /\ teams[t].payment_status = "Completed"

C1_Witness ==
    \E p, q \in VerSlots :
        /\ SamePayloadPair(p, q)
        /\ ver[p].resp.status = 200
        /\ ver[q].resp = AlreadyVerified
        /\ Len(RowsOf(ver[p].req.teamId)) = Len(ver[p].req.members)

\* C2: the payment_status of a team changes only from Initiated to Completed
\* (hence at most once); a Completed team never goes back to Initiated or
\* Pending, and no team row disappears.
C2_StatusOnlyForward ==
    [][ /\ Len(teams') >= Len(teams)
        /\ \A i \in 1..Len(teams) :
            /\ teams'[i].id = teams[i].id
            /\ teams'[i].payment_status # teams[i].payment_status
                => /\ teams[i].payment_status = "Initiated"
                   /\ teams'[i].payment_status = "Completed" ]_vars

\* A Completed team on which a later call (answered 409) or a failed member
\* insert has acted.
C2_Witness ==
    \E p \in VerSlots :
        /\ Done(ver[p])
        /\ ver[p].resp.status \in {409, 500}
        /\ PastUpdate(ver[p])
        /\ ver[p].req.teamId \in 1..Len(teams)
        /\ teams[ver[p].req.teamId].payment_status = "Completed"
        /\ RowsOf(ver[p].req.teamId) = << >>

\* C3: every row of registrations references a team whose payment_status is
\* Completed.
C3_MembersOnlyOfCompleted ==
    \A i \in 1..Len(registrations) :
        \E t \in 1..Len(teams) :
            /\ teams[t].id = registrations[i].team_id
            /\ teams[t].payment_status = "Completed"

\* Members are stored for one team while another team is still Initiated.
C3_Witness ==
    /\ registrations # << >>
    /\ \E t \in 1..Len(teams) : teams[t].payment_status = "Initiated"

BadSignatureResp == Resp(400, "Invalid payment signature. Possible fraud attempt.")

\* C4: a verify-payment call whose signature is not, as a whole string, the
\* HMAC-SHA256 of orderId|paymentId under the secret is answered 400 on
\* arrival, whatever its other fields, and teams and registrations stay as
\* they were.
C4_BadSignatureRejected ==
    [][ \A p \in VerSlots :
          (ver[p].pc = "idle" /\ ver'[p].pc # "idle") =>
            \A req \in VerRequests :
              ( /\ req.razorpaySignature
                     # ExpectedSignature(req.razorpayOrderId, req.razorpayPaymentId)
                /\ VerReceive(p, req) )
              => /\ Done(ver'[p])
                 /\ ver'[p].resp.status = 400
                 /\ teams' = teams
                 /\ registrations' = registrations ]_vars

\* A call was refused for its signature while a team waits in Initiated.
C4_Witness ==
    \E p \in VerSlots :
        /\ Done(ver[p])
        /\ ver[p].resp = BadSignatureResp
        /\ \E t \in 1..Len(teams) : teams[t].payment_status = "Initiated"

\* C5: a call whose orderId is not the razorpay_order_id stored on the team it
\* names goes no further than the lookup and is answered 400 (404 when the
\* lookup itself fails), although its signature is valid; so a team is
\* Completed, and has members, only through a call that named its own order.
C5_OrderMismatchRejected ==
    /\ \A p \in VerSlots :
        LET t == ver[p].req.teamId IN
        ( /\ ver[p].pc \notin {"idle", "lookup"}
          /\ t \in 1..Len(teams)
          /\ teams[t].razorpay_order_id # ver[p].req.razorpayOrderId )
        => /\ Done(ver[p])
           /\ ver[p].resp.status \in {400, 404}
    /\ \A t \in 1..Len(teams) :
        (teams[t].payment_status = "Completed" \/ RowsOf(t) # << >>)
        => \E p \in VerSlots :
            /\ ver[p].req.teamId = t
            /\ ver[p].req.razorpayOrderId = teams[t].razorpay_order_id
            /\ ver[p].req.razorpayPaymentId = teams[t].razorpay_payment_id

\* A validly signed call for the order of one team was refused on another
\* team, which is still Initiated and has no members.
C5_Witness ==
    \E p \in VerSlots, t, u \in 1..Len(teams) :
        /\ Done(ver[p])
        /\ ver[p].resp = Resp(400, "Order ID mismatch")
        /\ ver[p].req.teamId = t
        /\ u # t
        /\ teams[u].razorpay_order_id = ver[p].req.razorpayOrderId
        /\ ver[p].req.razorpaySignature
             = ExpectedSignature(ver[p].req.razorpayOrderId, ver[p].req.razorpayPaymentId)
        /\ teams[t].payment_status = "Initiated"
        /\ RowsOf(t) = << >>

\* C6: once a call has succeeded (200), every step of another call with the
\* same payload leaves teams (payment id and verification time included) and
\* registrations as they are, and that call ends with 409 "already verified"
\* unless a store call of it fails in the store.
C6_ReplayConflicts ==
    [][ \A p, q \in VerSlots :
          ( /\ p # q
            /\ Done(ver[q])
            /\ ver[q].resp.status = 200
            /\ ver'[p] # ver[p]
            /\ ver'[p].req = ver[q].req )
          => /\ teams' = teams
             /\ registrations' = registrations
             /\ Done(ver'[p]) => (ver'[p].resp = AlreadyVerified \/ ver'[p].storeError) ]_vars

\* A replay was answered 409; the team carries the time of the first call.
C6_Witness ==
    \E p, q \in VerSlots :
        /\ p # q
        /\ Done(ver[q]) /\ ver[q].resp.status = 200
        /\ Done(ver[p]) /\ ver[p].resp = AlreadyVerified
        /\ ver[p].req = ver[q].req
        /\ teams[ver[q].req.teamId].payment_verified_at = Now(q)
        /\ RowsOf(ver[q].req.teamId) = MemberData(ver[q].req.teamId, ver[q].req.members)

\* The teams rows that the registration handler p inserted (a row carries the
\* time its handler read).
TeamsBy(p) == { i \in 1..Len(teams) : teams[i].payment_initiated_at = Now(p) }
\* The orders the payment service created for the registration handler p.
OrdersBy(p) == { k \in 1..Len(orders) : orders[k].receipt[2] = Now(p) }

\* C7: the step by which POST /registration answers 201 adds exactly one team
\* row, in state Initiated, whose razorpay_order_id is the orderId of the
\* response and the id of the order the payment service created for this
\* request; the teamId of the response is the id of that row.
C7_CreatedTeamMatchesOrder ==
    [][ \A p \in RegSlots :
          (~Done(reg[p]) /\ Done(reg'[p]) /\ reg'[p].resp.status = 201)
          => /\ Len(teams') = Len(teams) + 1
             /\ SubSeq(teams', 1, Len(teams)) = teams
             /\ LET row == teams'[Len(teams')] IN
                /\ row.payment_status = "Initiated"
                /\ row.id = reg'[p].resp.teamId
                /\ row.razorpay_order_id = reg'[p].resp.orderId
                /\ \E k \in OrdersBy(p) : row.razorpay_order_id = OrderIdOf(k)
                /\ \A i \in 1..Len(teams) : teams[i].id # row.id ]_vars

\* A registration was answered 201 and its team row is there.
C7_Witness ==
    \E p \in RegSlots :
        /\ Done(reg[p])
        /\ reg[p].resp.status = 201
        /\ teams[reg[p].resp.teamId].razorpay_order_id = reg[p].resp.orderId

\* C8: a registration that is answered with a validation error (400) has
\* neither called the payment service nor inserted a team row: the error is
\* sent before any side effect.  A request whose body is invalid (team name,
\* domain, member count, Team Leads, duplicate email, missing field, role) is
\* answered so on arrival.
C8_ValidationBeforeEffects ==
    /\ [](\A p \in RegSlots :
            (Done(reg[p]) /\ reg[p].resp.status = 400)
            => /\ OrdersBy(p) = {}
               /\ TeamsBy(p) = {}
               /\ reg[p].razorpayOrder = Empty)
    /\ [][ \A p \in RegSlots :
             (reg[p].pc = "idle" /\ reg'[p].pc # "idle") =>
               \A req \in BadRegRequests :
                 RegReceive(p, req)
                 => /\ Done(reg'[p])
                    /\ reg'[p].resp.status = 400
                    /\ orders' = orders
                    /\ teams' = teams ]_vars

\* A registration was refused because its team name is stored, after another
\* registration had created an order and a team.
C8_Witness ==
    \E p \in RegSlots :
        /\ Done(reg[p])
        /\ reg[p].resp = Resp(400, "Team name already exists")
        /\ Len(orders) = 1
        /\ Len(teams) = 1

\* C10: every team row holds the id of an order that the payment service
\* created for the same request, so the order exists before the row does; and
\* a registration whose order creation failed is answered 500 and has no row.
C10_OrderBeforeTeam ==
    /\ \A i \in 1..Len(teams) :
        \E k \in 1..Len(orders) :
            /\ teams[i].razorpay_order_id = OrderIdOf(k)
            /\ orders[k].receipt[2] = teams[i].payment_initiated_at
    /\ \A p \in RegSlots :
        (Done(reg[p]) /\ OrdersBy(p) = {}) => (TeamsBy(p) = {} /\ reg[p].resp.status # 201)

\* The order creation of one registration failed; it has no team row, while
\* another registration has one.
C10_Witness ==
    \E p \in RegSlots :
        /\ Done(reg[p])
        /\ reg[p].resp = Resp(500, "Failed to create payment order")
        /\ TeamsBy(p) = {}
        /\ teams # << >>

\* What the claim asks of a member list.
CountInRange(members) == Len(members) \in 1..5
OneTeamLead(members) ==
    Cardinality({ i \in 1..Len(members) : members[i].role = "Team Lead" }) = 1
EmailsDistinct(members) ==
    \A i, j \in 1..Len(members) : i # j => members[i].email # members[j].email
FieldsGiven(members) ==
    \A i \in 1..Len(members) :
        /\ members[i].role \in {"Team Lead", "Member"}
        /\ members[i].name # "" /\ members[i].email # ""
        /\ members[i].phone # "" /\ members[i].college # ""

\* C9: POST /registration refuses (400) every member list with 0 or more than
\* 5 members, with no or with several Team Leads, or with two members of one
\* email; it accepts a member list only if it has 1 to 5 members, exactly one
\* Team Lead and pairwise distinct emails, and accepts every such list whose
\* members are complete.
C9_MemberListRule ==
    [][ (reg[1].pc = "idle" /\ reg'[1].pc # "idle") =>
          \A req \in WideRegRequests :
            RegReceive(1, req) =>
              /\ reg'[1].pc = "nameCheck"
                   => (CountInRange(req.members) /\ OneTeamLead(req.members)
                       /\ EmailsDistinct(req.members))
              /\ (CountInRange(req.members) /\ OneTeamLead(req.members)
                  /\ EmailsDistinct(req.members) /\ FieldsGiven(req.members))
                   => reg'[1].pc = "nameCheck"
              /\ reg'[1].pc # "nameCheck"
                   => (Done(reg'[1]) /\ reg'[1].resp.status = 400) ]_vars

\* A list of five members was accepted.
C9_Witness ==
    /\ reg[1].pc = "nameCheck"
    /\ Len(reg[1].req.members) = 5

\* C11: for every accepted registration the amount of the order sent to the
\* payment service and the amount_in_paise of the team row both are
\* member_count * chargePerMember * 100, a natural number of paise; a team of
\* one member at 100 rupees a member has an order and a row of 10000, and the
\* row is inserted as Initiated.
C11_AmountInMinorUnits ==
    /\ [](/\ \A p \in RegSlots : \A k \in OrdersBy(p) :
              /\ orders[k].amount = Len(reg[p].req.members) * ChargePerMember * 100
              /\ orders[k].amount \in Nat
          /\ \A p \in RegSlots : \A i \in TeamsBy(p) :
              /\ teams[i].team_size = Len(reg[p].req.members)
              /\ teams[i].amount_in_paise = teams[i].team_size * ChargePerMember * 100
              /\ teams[i].amount_in_paise \in Nat
              /\ \A k \in OrdersBy(p) : orders[k].amount = teams[i].amount_in_paise
              /\ (teams[i].team_size = 1 /\ ChargePerMember = 100)
                    => teams[i].amount_in_paise = 10000)
    /\ [][ Len(teams') > Len(teams) =>
             /\ teams'[Len(teams')].payment_status = "Initiated"
             /\ \E p \in RegSlots :
                 /\ reg'[p].resp.status = 201
                 /\ reg'[p].resp.teamId = Len(teams')
                 /\ reg'[p].resp.amountInPaise = teams'[Len(teams')].amount_in_paise ]_vars

\* A team of one member and a team of two, with their orders.
C11_Witness ==
    \E i, j \in 1..Len(teams) :
        /\ teams[i].team_size = 1 /\ teams[i].amount_in_paise = 10000
        /\ teams[i].payment_status = "Initiated"
        /\ teams[j].team_size = 2 /\ teams[j].amount_in_paise = 20000
        /\ \E k \in 1..Len(orders) :
            /\ OrderIdOf(k) = teams[i].razorpay_order_id
            /\ orders[k].amount = 10000

\* What the claim calls the presence check and the signature verification.
FailsPresence(req) ==
    \/ req.teamId = 0
    \/ req.razorpayPaymentId = Empty
    \/ req.razorpayOrderId = Empty
    \/ req.razorpaySignature.len = 0
    \/ req.members = << >>
    \/ \E i \in 1..Len(req.members) :
        req.members[i].rollNumber = "" /\ req.members[i].roll_number = ""
FailsSignature(req) ==
    req.razorpaySignature # ExpectedSignature(req.razorpayOrderId, req.razorpayPaymentId)
PresenceMessages ==
    { "Missing required payment verification fields", "Members array is required",
      "Member is missing rollNumber" }
OrderMismatch == Resp(400, "Order ID mismatch")

\* C12: verify-payment applies its gates in the order presence, signature,
\* team lookup, order identity, conditional update, member insert.  A request
\* is answered by the first gate it fails (a missing field before a bad
\* signature, a bad signature before an unknown team, an order mismatch before
\* "already verified"); a handler reaches the store only with a request that
\* passed presence and signature, reads before it writes, and writes teams
\* only at the update and registrations only at the insert.
C12_GatesInOrder ==
    /\ [](\A p \in VerSlots :
            ver[p].pc \in {"lookup", "update", "insert"}
            => (~FailsPresence(ver[p].req) /\ ~FailsSignature(ver[p].req)))
    /\ [][ \A p \in VerSlots :
             /\ (ver[p].pc = "idle" /\ ver'[p].pc # "idle") =>
                   /\ teams' = teams /\ registrations' = registrations
                   /\ \A req \in VerRequests :
                        VerReceive(p, req) =>
                          /\ FailsPresence(req)
                               => /\ Done(ver'[p]) /\ ver'[p].resp.status = 400
                                  /\ ver'[p].resp.message \in PresenceMessages
                          /\ (~FailsPresence(req) /\ FailsSignature(req))
                               => ver'[p].resp = BadSignatureResp
                          /\ (~FailsPresence(req) /\ ~FailsSignature(req))
                               => ver'[p].pc = "lookup"
             /\ (ver[p].pc = "lookup" /\ ver'[p] # ver[p]) =>
                   LET team == TeamById(teams, ver[p].req.teamId) IN
                   /\ teams' = teams /\ registrations' = registrations
                   /\ team.id = 0 => ver'[p].resp.status = 404
                   /\ (team.id # 0 /\ ~ver'[p].storeError
                         /\ team.razorpay_order_id # ver[p].req.razorpayOrderId)
                        => ver'[p].resp = OrderMismatch
                   /\ ver'[p].pc = "update"
                        => (team.id # 0 /\ team.razorpay_order_id = ver[p].req.razorpayOrderId)
                   /\ ver'[p].pc \in {"update", "done"}
             /\ (ver[p].pc = "update" /\ ver'[p] # ver[p]) =>
                   /\ registrations' = registrations
                   /\ (teams[ver[p].req.teamId].payment_status # "Initiated"
                         /\ ~ver'[p].storeError)
                        => (ver'[p].resp = AlreadyVerified /\ teams' = teams)
                   /\ ver'[p].pc = "insert"
                        => teams[ver[p].req.teamId].payment_status = "Initiated"
                   /\ ver'[p].pc \in {"insert", "done"}
             /\ (ver[p].pc = "insert" /\ ver'[p] # ver[p]) =>
                   /\ teams' = teams
                   /\ Done(ver'[p]) /\ ver'[p].resp.status \in {200, 409, 500} ]_vars

\* A call naming the order of another team was refused for the order id on a
\* team that is Completed already: it fails the order-identity gate and would
\* fail the conditional update, and is answered by the former.
C12_Witness ==
    \E p \in VerSlots :
        /\ Done(ver[p])
        /\ ver[p].resp = OrderMismatch
        /\ teams[ver[p].req.teamId].payment_status = "Completed"
        /\ teams[ver[p].req.teamId].payment_verified_at < Now(p)

UniqueConflict == Resp(409, "Some registrations already exist (unique constraint)")
VerificationError == Resp(500, "An error occurred during payment verification")

\* C13: when the member insert fails after the conditional update succeeded,
\* the step that answers the failure writes nothing: the team stays Completed
\* with the payment id and the time of this call, no member row of the call
\* is stored, and nothing moves the team back to Initiated.
C13_CompletedAfterInsertFailure ==
    [][ \A p \in VerSlots :
          (ver[p].pc = "insert" /\ Done(ver'[p]) /\ ver'[p].resp.status # 200) =>
            LET t == ver[p].req.teamId IN
            /\ ver'[p].resp.status \in {409, 500}
            /\ teams' = teams
            /\ teams'[t].payment_status = "Completed"
            /\ teams'[t].razorpay_payment_id = ver[p].req.razorpayPaymentId
            /\ teams'[t].payment_verified_at = Now(p)
            /\ registrations' = registrations
            /\ RowsOf(t) = << >> ]_vars

\* The member insert of a call met a roll number stored for another team; the
\* team of the call is Completed and has no members.
C13_Witness ==
    \E p \in VerSlots :
        /\ Done(ver[p])
        /\ ver[p].resp = UniqueConflict
        /\ teams[ver[p].req.teamId].payment_status = "Completed"
        /\ teams[ver[p].req.teamId].razorpay_payment_id = ver[p].req.razorpayPaymentId
        /\ RowsOf(ver[p].req.teamId) = << >>
        /\ registrations # << >>

\* C14: no two rows of registrations have the same email.
C14_EmailUnique ==
    \A i, j \in 1..Len(registrations) :
        i # j => registrations[i].email # registrations[j].email

\* C15: the member rows stored for a team are at most 5 and hold exactly one
\* Team Lead, whatever member list the verify-payment call supplied.
C15_TeamMembersWellFormed ==
    \A t \in 1..Len(teams) :
        RowsOf(t) # << >> =>
            /\ Len(RowsOf(t)) \in 1..5
            /\ Cardinality({ i \in 1..Len(RowsOf(t)) : RowsOf(t)[i].role = "Team Lead" }) = 1

\* C16: no two rows of teams have the same team_name.
C16_TeamNameUnique ==
    \A i, j \in 1..Len(teams) :
        i # j => teams[i].team_name # teams[j].team_name

\* C17: the member insert of verify-payment is answered 409 (conflict) when
\* the store refused it for a unique violation, 500 when it failed for any
\* other reason (a fault of the store, a not-null, check or foreign-key
\* violation), and 200 when it stored the batch.
C17_UniqueIs409OtherIs500 ==
    [][ \A p \in VerSlots :
          (ver[p].pc = "insert" /\ Done(ver'[p])) =>
            LET rows == MemberData(ver[p].req.teamId, ver[p].req.members)
                fault == ver'[p].storeError
                refused == \E i \in 1..Len(rows) : ~RowAllowed(teams, rows[i])
                taken == RollTaken(registrations, rows) IN
            /\ (~fault /\ ~refused /\ taken)
                 => /\ ver'[p].resp.status = 409
                    /\ ver'[p].resp.message = UniqueConflict.message
            /\ (fault \/ refused)
                 => /\ ver'[p].resp.status = 500
                    /\ ver'[p].resp.message = VerificationError.message
            /\ (~fault /\ ~refused /\ ~taken) => ver'[p].resp.status = 200 ]_vars

\* The insert of a batch with an unknown role was refused by the role check of
\* the store and answered 500.
C17_Witness ==
    \E p \in VerSlots :
        /\ Done(ver[p])
        /\ ver[p].resp = VerificationError
        /\ ~ver[p].storeError
        /\ teams[ver[p].req.teamId].payment_status = "Completed"
        /\ \E i \in 1..Len(ver[p].req.members) : ver[p].req.members[i].role \notin Roles

\* C18: outside development mode no error response of the registration, the
\* verify-payment or the create-order endpoint carries the message of the
\* underlying error.
C18_NoDetailOutsideDevelopment ==
    nodeEnv # "development" =>
        /\ \A p \in RegSlots : reg[p].resp.status >= 400 => reg[p].resp.detail = Empty
        /\ \A p \in VerSlots : ver[p].resp.status >= 400 => ver[p].resp.detail = Empty
        /\ co.resp.status >= 400 => co.resp.detail = Empty

\* C19: a verify-payment call with a valid signature whose teamId matches no
\* team, or whose lookup fails, is answered 404 "Team not found" by the lookup
\* step, not with a 400, and that step leaves teams and registrations as they
\* are; a call answered 404 had passed the presence and signature checks.
C19_UnknownTeamNotFound ==
    /\ [](\A p \in VerSlots :
            (Done(ver[p]) /\ ver[p].resp.status = 404)
            => (~FailsPresence(ver[p].req) /\ ~FailsSignature(ver[p].req)))
    /\ [][ \A p \in VerSlots :
             ( /\ ver[p].pc = "lookup"
               /\ ver'[p] # ver[p]
               /\ \/ ver'[p].storeError
                  \/ \A i \in 1..Len(teams) : teams[i].id # ver[p].req.teamId )
             => /\ Done(ver'[p])
                /\ ver'[p].resp.status = 404
                /\ ver'[p].resp.message = "Team not found"
                /\ teams' = teams
                /\ registrations' = registrations ]_vars

\* A validly signed call for team 2 was answered 404 while only team 1 exists.
C19_Witness ==
    \E p \in VerSlots :
        /\ Done(ver[p])
        /\ ver[p].resp.status = 404
        /\ ~ver[p].storeError
        /\ Len(teams) = 1
        /\ ver[p].req.teamId = 2
        /\ ver[p].req.razorpaySignature
             = ExpectedSignature(ver[p].req.razorpayOrderId, ver[p].req.razorpayPaymentId)

RegistrationError == Resp(500, "An error occurred during registration")

\* C20: when the team insert of POST /registration fails after the order was
\* created, the handler answers 500, there is no team row of that request, the
\* one order created for it is referenced by no team row, and the handler
\* calls orders.create at most once and does nothing after its response.
C20_OrphanOrderNoRetry ==
    /\ [](\A p \in RegSlots :
            /\ Cardinality(OrdersBy(p)) <= 1
            /\ (Done(reg[p]) /\ reg[p].resp.message = RegistrationError.message)
                => /\ reg[p].resp.status = 500
                   /\ TeamsBy(p) = {}
                   /\ Cardinality(OrdersBy(p)) = 1
                   /\ \A k \in OrdersBy(p) : \A i \in 1..Len(teams) :
                        teams[i].razorpay_order_id # OrderIdOf(k))
    /\ [][ \A p \in RegSlots :
             /\ (reg[p].pc = "insertTeam" /\ reg'[p] # reg[p] /\ teams' = teams)
                  => /\ Done(reg'[p])
                     /\ reg'[p].resp.status = 500
                     /\ orders' = orders
             /\ Done(reg[p]) => reg'[p] = reg[p] ]_vars

\* The team insert of one registration failed and left its order behind, while
\* another registration has its team.
C20_Witness ==
    \E p \in RegSlots :
        /\ Done(reg[p])
        /\ reg[p].resp = RegistrationError
        /\ OrdersBy(p) # {}
        /\ Len(orders) = 2
        /\ Len(teams) = 1

\* C21: when the conditional update of verify-payment returns an error, that
\* step ends the call with the 500 response, and the call stores no member
\* row, then or later.
C21_UpdateErrorIs500 ==
    [][ \A p \in VerSlots :
          /\ (ver[p].pc = "update" /\ ver'[p].storeError)
               => /\ Done(ver'[p])
                  /\ ver'[p].resp.status = 500
                  /\ ver'[p].resp.message = VerificationError.message
                  /\ registrations' = registrations
          /\ (Done(ver[p]) /\ ver[p].resp.status = 500)
               => (ver'[p] = ver[p]
                   /\ (registrations' # registrations
                        => \E q \in VerSlots \ {p} : ver[q].pc = "insert")) ]_vars

\* The update of a call failed: the call was answered 500, its team is still
\* Initiated and has no members.
C21_Witness ==
    \E p \in VerSlots :
        /\ Done(ver[p])
        /\ ver[p].resp = VerificationError
        /\ ver[p].storeError
        /\ teams[ver[p].req.teamId].payment_status = "Initiated"
        /\ RowsOf(ver[p].req.teamId) = << >>

\* The handler is under way: its request has arrived, its response is not sent.
Running(h) == h.pc \notin {"idle", "done"}

\* C22: when every awaited call returns, every registration and every
\* verify-payment request that has arrived is eventually answered; a handler
\* has a response exactly when it is done, never changes it, takes no step
\* after it, and the store and the payment service change only by a step of a
\* handler that is under way.
C22_TerminatesWithOneResponse ==
    /\ \A p \in VerSlots : (ver[p].pc # "idle") ~> Done(ver[p])
    /\ \A p \in RegSlots : (reg[p].pc # "idle") ~> Done(reg[p])
    /\ [](/\ \A p \in VerSlots : Done(ver[p]) <=> ver[p].resp # NoResp
          /\ \A p \in RegSlots : Done(reg[p]) <=> reg[p].resp # NoResp)
    /\ [][ /\ \A p \in VerSlots : Done(ver[p]) => ver'[p] = ver[p]
           /\ \A p \in RegSlots : Done(reg[p]) => reg'[p] = reg[p]
           /\ (teams' # teams \/ registrations' # registrations \/ orders' # orders)
                => \/ \E p \in VerSlots : Running(ver[p]) /\ ver'[p] # ver[p]
                   \/ \E p \in RegSlots : Running(reg[p]) /\ reg'[p] # reg[p] ]_vars

\* Every request that arrived has its response: a registration answered 201
\* and two verify-payment calls, one answered 200.
C22_Witness ==
    /\ Done(reg[1]) /\ reg[1].resp.status = 201
    /\ \A p \in VerSlots : Done(ver[p])
    /\ \E p \in VerSlots : ver[p].resp.status = 200

\* C23: whichever verify-payment handler of the repository serves the calls,
\* two calls for one team are never both answered 200, and the member rows of
\* a team are the batch of one call.
C23_OneBatchPerTeam ==
    \A p, q \in VerSlots :
        (p # q /\ Done(ver[p]) /\ Done(ver[q]) /\ ver[p].req.teamId = ver[q].req.teamId)
        => /\ ~(ver[p].resp.status = 200 /\ ver[q].resp.status = 200)
           /\ ver[p].resp.status = 200
                => Len(RowsOf(ver[p].req.teamId)) = Len(ver[p].req.members)

\* C24: a step that changes a team row is the successful conditional update
\* of a verify-payment call naming that team; it sets payment_status,
\* razorpay_payment_id and payment_verified_at of that row and leaves its other
\* columns, and every other row, as they were.
C24_UpdateFrame ==
    [][ /\ Len(teams') >= Len(teams)
        /\ \A i \in 1..Len(teams) :
            teams'[i] # teams[i] =>
              /\ \E p \in VerSlots :
                    /\ ver[p].pc = "update" /\ ver'[p].pc = "insert"
                    /\ ver[p].req.teamId = teams[i].id
                    /\ teams'[i].razorpay_payment_id = ver[p].req.razorpayPaymentId
                    /\ teams'[i].payment_verified_at = Now(p)
              /\ teams'[i].payment_status = "Completed"
              /\ teams'[i] = [teams[i] EXCEPT
                                !.payment_status = teams'[i].payment_status,
                                !.razorpay_payment_id = teams'[i].razorpay_payment_id,
                                !.payment_verified_at = teams'[i].payment_verified_at]
              /\ \A j \in 1..Len(teams) : j # i => teams'[j] = teams[j] ]_vars

\* The second team was finalized while the first, registered with another
\* name, is Initiated and carries no payment id.
C24_Witness ==
    /\ Len(teams) = 2
    /\ teams[2].payment_status = "Completed"
    /\ teams[2].razorpay_order_id = OrderIdOf(2)
    /\ teams[1].payment_status = "Initiated"
    /\ teams[1].razorpay_payment_id = Empty
    /\ teams[1].team_name # teams[2].team_name

\* C25: of two verify-payment calls for one team that carry different payment
\* ids, each signed for the order id of the team, the call answered 200 is the
\* one whose payment id and members are stored; the other is not answered 200,
\* and its payment id is not the stored one.
C25_WinnerPaymentStored ==
    \A p, q \in VerSlots :
        LET t == ver[p].req.teamId IN
        ( /\ p # q
          /\ Done(ver[p]) /\ Done(ver[q])
          /\ ver[q].req.teamId = t
          /\ ver[p].req.razorpayPaymentId # ver[q].req.razorpayPaymentId
          /\ ver[p].resp.status = 200 )
        => /\ teams[t].razorpay_payment_id = ver[p].req.razorpayPaymentId
           /\ teams[t].razorpay_payment_id # ver[q].req.razorpayPaymentId
           /\ RowsOf(t) = MemberData(t, ver[p].req.members)
           /\ ver[q].resp.status # 200

\* The call that arrived second was answered 200, the first 409, for the same
\* team with different payment ids.
C25_Witness ==
    \E p, q \in VerSlots :
        /\ q < p
        /\ Done(ver[p]) /\ ver[p].resp.status = 200
        /\ Done(ver[q]) /\ ver[q].resp = AlreadyVerified
        /\ ver[q].req.teamId = ver[p].req.teamId
        /\ ver[q].req.razorpayOrderId = ver[p].req.razorpayOrderId
        /\ ver[q].req.razorpayPaymentId # ver[p].req.razorpayPaymentId
        /\ teams[ver[p].req.teamId].razorpay_payment_id = ver[p].req.razorpayPaymentId

\* Team t is Completed, has no member rows, and no call is about to insert
\* rows for it.
Stranded(t) ==
    /\ teams[t].payment_status = "Completed"
    /\ RowsOf(t) = << >>
    /\ \A p \in VerSlots : ~(ver[p].pc = "insert" /\ ver[p].req.teamId = t)

\* C26: a team that is Completed without member rows after the member insert
\* of the call that finalized it failed stays so: every later conditional
\* update of a call for that team that the store executes is answered 409
\* "already verified", and no step gives the team member rows.
C26_StrandedForever ==
    [][ \A t \in 1..Len(teams) :
          Stranded(t) =>
            /\ teams'[t].payment_status = "Completed"
            /\ SelectSeq(registrations', LAMBDA r : r.team_id = t) = << >>
            /\ \A p \in VerSlots :
                 /\ ~(ver'[p].pc = "insert" /\ ver'[p].req.teamId = t)
                 /\ ( /\ ver[p].pc = "update" /\ ver[p].req.teamId = t
                      /\ ver'[p] # ver[p] /\ ~ver'[p].storeError )
                    => ver'[p].resp = AlreadyVerified ]_vars

\* The member insert of a call failed in the store, and its exact retry was
\* answered 409; the team is Completed and has no members.
C26_Witness ==
    \E p, q \in VerSlots :
        /\ q < p
        /\ Done(ver[q]) /\ ver[q].resp = VerificationError /\ ver[q].storeError
        /\ Done(ver[p]) /\ ver[p].resp = AlreadyVerified
        /\ ver[p].req = ver[q].req
        /\ Stranded(ver[q].req.teamId)
        /\ teams[ver[q].req.teamId].payment_verified_at = Now(q)

\* C27: a team that has member rows has as many as its team_size, the member
\* count recorded and charged at registration.
C27_RowsMatchTeamSize ==
    \A t \in 1..Len(teams) :
        RowsOf(t) # << >> => Len(RowsOf(t)) = teams[t].team_size

\* No call on the store has returned an error to a verify-payment handler.
NoStoreError ==
    \A p \in VerSlots :
        /\ ~ver[p].storeError
        /\ ver[p].resp.message \notin {UniqueConflict.message, VerificationError.message}

\* Team t is Completed and has member rows.
Finalized(t) ==
    /\ t \in 1..Len(teams)
    /\ teams[t].payment_status = "Completed"
    /\ RowsOf(t) # << >>

\* C28: when a verify-payment call that passed the presence and signature
\* checks is about to look up a team that is Initiated and carries the order
\* id of the call, then, under weak fairness of the handlers' steps, the team
\* eventually is Completed and has member rows, unless a call on the store
\* returns an error; whichever other calls for the team run beside it.
C28_EventuallyFinalized ==
    \A p \in VerSlots : \A t \in TeamIds :
        ( /\ ver[p].pc = "lookup"
          /\ ver[p].req.teamId = t
          /\ t \in 1..Len(teams)
          /\ teams[t].payment_status = "Initiated"
          /\ teams[t].razorpay_order_id = ver[p].req.razorpayOrderId )
        ~> (Finalized(t) \/ ~NoStoreError)

\* Two calls for the team have run without a store error: one was answered
\* 200, the other 409, and the team is Completed with member rows.
C28_Witness ==
    /\ NoStoreError
    /\ Finalized(1)
    /\ \E p, q \in VerSlots :
        /\ p # q
        /\ ver[p].req.teamId = 1 /\ ver[q].req.teamId = 1
        /\ ver[p].resp.status = 200
        /\ ver[q].resp = AlreadyVerified

=============================================================================
